---- MODULE Spec2Model ----
(***************************************************************************)
(* A model of the Kendo UI bridge for Aurelia: the shared WidgetBase       *)
(* helper (common/widget-base) and the adapters Calendar, TreeMap,         *)
(* Tooltip, Stock and AuToolbar that drive a native widget through it.     *)
(*                                                                         *)
(* Names (option names, event names, attribute names) are sequences of     *)
(* one-character strings, so that the conversions between the hyphenated   *)
(* and the camel-cased form are computed character by character.           *)
(***************************************************************************)
EXTENDS Integers, Sequences, FiniteSets, TLC

\* ------------------------------------------------------------------ bounds
MaxAttrs == 2      \* attributes on the host element
MaxWidgets == 2    \* native widgets constructed in one behaviour
MaxDestroy == 2    \* destroy() calls received by one native widget
MaxUpdates == 1    \* value pushes received by one native widget
MaxFires == 2      \* native events raised in one behaviour

\* ------------------------------------------------------------------ values
\* A JavaScript value: undefined, null, a falsy defined value, a truthy value,
\* a value written in an options literal, a value written by a hook.
V(s) == [tag |-> s, of |-> <<>>]
undefined == V("undefined")
null == V("null")
zero == V("0")
v1 == V("v1")
lit == V("lit")
hooked == V("hooked")
\* the proxy event handler generated for event e
Proxy(e) == [tag |-> "proxy", of |-> e]
\* the array holding the parent context
ParentArray(ctx) == [tag |-> "parent", of |-> <<ctx>>]

Truthy(v) == v \notin {undefined, null, zero}
BoundValues == {undefined, null, zero, v1}

\* ------------------------------------------------------------------ names
Upper == {"T", "D", "S", "C", "B", "X"}
toLowerCase(c) ==
  CASE c = "T" -> "t" [] c = "D" -> "d" [] c = "S" -> "s"
    [] c = "C" -> "c" [] c = "B" -> "b" [] c = "X" -> "x" [] OTHER -> c
toUpperCase(c) ==
  CASE c = "t" -> "T" [] c = "d" -> "D" [] c = "s" -> "S"
    [] c = "c" -> "C" [] c = "b" -> "B" [] c = "x" -> "X" [] OTHER -> c
IsLower(c) == toUpperCase(c) # c

title == <<"t">>
dataSource == <<"d", "S">>
change == <<"c">>
dataBound == <<"d", "B">>
ParentKey == <<"_", "$", "p">>

\* 'k' + first letter upper-cased + rest
getBindablePropertyName(prop) ==
  IF prop = <<>> THEN <<"k">> ELSE <<"k", toUpperCase(prop[1])>> \o Tail(prop)

kDataSource == <<"k", "D", "S">>

LowerFirst(s) == IF s = <<>> THEN s ELSE <<toLowerCase(s[1])>> \o Tail(s)

RECURSIVE ReplaceUpper(_)
ReplaceUpper(s) ==
  IF s = <<>> THEN <<>>
  ELSE IF s[1] \in Upper
       THEN <<"-", toLowerCase(s[1])>> \o ReplaceUpper(Tail(s))
       ELSE <<s[1]>> \o ReplaceUpper(Tail(s))

\* dataBound -> data-bound
_hyphenate(name) == ReplaceUpper(LowerFirst(name))

RECURSIVE ReplaceDash(_)
ReplaceDash(s) ==
  IF s = <<>> THEN <<>>
  ELSE IF Len(s) >= 2 /\ s[1] = "-" /\ IsLower(s[2])
       THEN <<toUpperCase(s[2])>> \o ReplaceDash(Tail(Tail(s)))
       ELSE <<s[1]>> \o ReplaceDash(Tail(s))

\* data-bound -> dataBound
_unhyphenate(name) == ReplaceDash(LowerFirst(name))

eventPrefix == <<"o", "n", "-">>

startsWith(s, p) == Len(s) >= Len(p) /\ SubSeq(s, 1, Len(p)) = p

\* the attributes an element may carry
AttrChange == eventPrefix \o <<"c">>
AttrDataBound == eventPrefix \o <<"d", "-", "b">>
AttrBogus == eventPrefix \o <<"x">>
AttrTitle == <<"t">>
AttrNames == {AttrChange, AttrDataBound, AttrBogus, AttrTitle}

RECURSIVE getEventsFromAttributes(_)
getEventsFromAttributes(attributes) ==
  IF attributes = <<>> THEN <<>>
  ELSE IF startsWith(Head(attributes), eventPrefix)
       THEN <<_unhyphenate(SubSeq(Head(attributes), Len(eventPrefix) + 1,
                                  Len(Head(attributes))))>>
            \o getEventsFromAttributes(Tail(attributes))
       ELSE getEventsFromAttributes(Tail(attributes))

\* ---------------------------------------------------------------- toolkit
\* jQuery.fn: the controls the native toolkit registers, each with the option
\* schema (option name -> default value) and the event vocabulary that
\* ctor.widget.prototype carries.
jQueryFn ==
  [kendoCalendar |-> [options |-> (title :> null),
                      events |-> {change, dataBound}],
   kendoTreeMap |-> [options |-> (title :> v1) @@ (dataSource :> null),
                     events |-> {dataBound}],
   kendoTooltip |-> [options |-> (title :> null),
                     events |-> {change}],
   kendoStockChart |-> [options |-> (title :> null) @@ (dataSource :> null),
                        events |-> {dataBound}]]

Registered == DOMAIN jQueryFn
\* what a caller may pass to control(): a registered name, no name, a wrong name
ControlArgs == Registered \cup {"", "kendoBogus"}

OptionNames == {title, dataSource}
KNames == {getBindablePropertyName(o) : o \in OptionNames}
LiteralKeys == {title, dataSource, change}

Adapters == {"Calendar", "TreeMap", "Tooltip", "Stock", "AuToolbar"}
\* "WidgetBase": the helper driven through its own interface by a wrapper
Kinds == Adapters \cup {"WidgetBase"}

RECURSIVE SeqsUpTo(_, _)
SeqsUpTo(S, n) ==
  IF n = 0 THEN {<<>>}
  ELSE SeqsUpTo(S, n - 1)
       \cup {Append(q, x) : q \in {r \in SeqsUpTo(S, n - 1) : Len(r) = n - 1}, x \in S}

Range(q) == {q[i] : i \in 1..Len(q)}

\* ------------------------------------------------------------------ state
VARIABLES
  kind,         \* which class owns the helper
  controlName,  \* WidgetBase.controlName ("" while unset)
  kendoOptions, \* WidgetBase.kendoOptions
  kendoEvents,  \* WidgetBase.kendoEvents
  viewModel,    \* WidgetBase.viewModel ("" while unset, "vm" once linked)
  vm,           \* the view-model's bindable k-properties
  literal,      \* the view-model's options literal (viewModel.options)
  attributes,   \* the attributes of the host element
  parent,       \* the adapter's $parent
  kWidget,      \* the adapter's native widget handle (0: undefined)
  _component,   \* AuToolbar._component (0: undefined)
  widgets,      \* every native widget constructed so far, by handle
  taskQueue,    \* the micro task queue
  dispatched,   \* the DOM events dispatched on the host element
  updating,     \* a synchronous widget operation / binding update is running
  last          \* the operation that ran last and how it ended

vars == <<kind, controlName, kendoOptions, kendoEvents, viewModel, vm, literal,
          attributes, parent, kWidget, _component, widgets, taskQueue,
          dispatched, updating, last>>

Ctx == "ctx"
NoCtx == "undefined"

\* the record of an operation: its name, its argument, the error it raised
\* ("" for none), whether it entered _getOptions, how many hooks it called
DoneWith(op, arg, error, built, hooks) ==
  [op |-> op, arg |-> arg, error |-> error, built |-> built, hooks |-> hooks]
Done(op, error, built, hooks) == DoneWith(op, "", error, built, hooks)

\* ------------------------------------------------------------ WidgetBase
assign(target, source) == source @@ target

\* drops the keys whose value is undefined or null
pruneOptions(options) ==
  [k \in {x \in DOMAIN options : options[x] \notin {undefined, null}} |-> options[k]]

\* control(controlName): the fields after the call, or the error raised
control(name) ==
  IF name = "" \/ name \notin Registered
  THEN [error |-> "The name of control is invalid or not set",
        controlName |-> controlName,
        kendoOptions |-> kendoOptions,
        kendoEvents |-> kendoEvents]
  ELSE [error |-> "",
        controlName |-> name,
        kendoOptions |-> jQueryFn[name].options,
        kendoEvents |-> jQueryFn[name].events]

\* linkViewModel(viewModel)
linkViewModel(model) ==
  IF model = ""
  THEN [error |-> "viewModel is not set", viewModel |-> viewModel]
  ELSE [error |-> "", viewModel |-> model]

getOptionsFromBindables ==
  LET options == [prop \in DOMAIN kendoOptions |-> vm[getBindablePropertyName(prop)]]
  IN IF Truthy(vm[kDataSource])
     THEN assign(options, dataSource :> vm[kDataSource])
     ELSE options

\* the bindable values after setDefaultBindableValues() on schema props
setDefaultBindableValues(props) ==
  [k \in KNames |->
     IF \E prop \in DOMAIN props : getBindablePropertyName(prop) = k
     THEN props[CHOOSE prop \in DOMAIN props : getBindablePropertyName(prop) = k]
     ELSE undefined]

\* a loop that skips the events the control does not have
RECURSIVE forEachEventSkipping(_, _)
forEachEventSkipping(events, options) ==
  IF events = <<>> THEN [error |-> "", options |-> options]
  ELSE IF Head(events) \notin kendoEvents
       THEN forEachEventSkipping(Tail(events), options)
       ELSE forEachEventSkipping(Tail(events),
                                 assign(options, Head(events) :> Proxy(Head(events))))

\* events.forEach(event => ...): throws on the first event the control does
\* not have, else adds the event's proxy handler to options
RECURSIVE forEachEvent(_, _)
forEachEvent(events, options) ==
  IF events = <<>> THEN [error |-> "", options |-> options]
  ELSE IF Head(events) \notin kendoEvents
       THEN [error |-> "not an event on the control", options |-> <<>>]
       ELSE forEachEvent(Tail(events), assign(options, Head(events) :> Proxy(Head(events))))

getEventOptions(element) ==
  forEachEvent(getEventsFromAttributes(element), <<>>)

\* a merge that does not prune the bound values
_getOptionsUnpruned(element) ==
  LET options == getOptionsFromBindables
      eventOptions == getEventOptions(element)
  IN IF eventOptions.error # ""
     THEN [error |-> eventOptions.error, options |-> <<>>]
     ELSE [error |-> "",
           options |-> assign(assign(assign(<<>>, literal), options),
                              eventOptions.options)]

\* a merge that applies the options literal last
_getOptionsLiteralLast(element) ==
  LET options == getOptionsFromBindables
      eventOptions == getEventOptions(element)
  IN IF eventOptions.error # ""
     THEN [error |-> eventOptions.error, options |-> <<>>]
     ELSE [error |-> "",
           options |-> assign(assign(assign(<<>>, pruneOptions(options)),
                                     eventOptions.options), literal)]

_getOptions(element) ==
  LET options == getOptionsFromBindables
      eventOptions == getEventOptions(element)
  IN IF eventOptions.error # ""
     THEN [error |-> eventOptions.error, options |-> <<>>]
     ELSE [error |-> "",
           options |-> assign(assign(assign(<<>>, literal), pruneOptions(options)),
                              eventOptions.options)]

\* what a beforeInitialize hook does to the options it is handed
beforeInitialize(hook, allOptions) ==
  CASE hook = "drop" -> [k \in DOMAIN allOptions \ {title} |-> allOptions[k]]
    [] hook = "set" -> assign(allOptions, title :> hooked)
    [] OTHER -> allOptions

Hooks == {"none", "drop", "set"}

\* the argument of createWidget: given or not, with or without element, ...
Args(given, element, parentCtx, before, after) ==
  [given |-> given, element |-> element, parentCtx |-> parentCtx,
   beforeInitialize |-> before, afterInitialize |-> after]

\* the native constructor: the widget that jQuery(element)[controlName](allOptions)
\* constructs, with the back reference createWidget sets on it
NewWidget(merged, allOptions, parentCtx) ==
  [control |-> controlName, merged |-> merged, options |-> allOptions,
   _parent |-> parentCtx, destroyed |-> 0, updates |-> 0]

\* a createWidget that checks parentCtx only after the options are built
createWidgetLateCheck(options) ==
  LET none == NewWidget(<<>>, <<>>, NoCtx) IN
  IF ~options.given
  THEN [error |-> "the createWidget() function needs to be called with an object",
        built |-> FALSE, hooks |-> 0, widget |-> none]
  ELSE IF ~options.element
  THEN [error |-> "element is not set", built |-> FALSE, hooks |-> 0, widget |-> none]
  ELSE IF controlName = "" \/ viewModel = ""
  THEN [error |-> "TypeError", built |-> TRUE, hooks |-> 0, widget |-> none]
  ELSE IF _getOptions(attributes).error # ""
  THEN [error |-> _getOptions(attributes).error, built |-> TRUE, hooks |-> 0,
        widget |-> none]
  ELSE [error |-> "parentCtx is not set", built |-> TRUE,
        hooks |-> IF options.beforeInitialize # "none" THEN 1 ELSE 0,
        widget |-> none]

\* createWidget(options): the error raised, or the widget constructed; built
\* tells whether _getOptions was entered, hooks how many hooks were called.
\* With no control selected or no view-model linked, _getOptions dereferences
\* undefined: a TypeError.
createWidget(options) ==
  LET none == NewWidget(<<>>, <<>>, NoCtx) IN
  IF ~options.given
  THEN [error |-> "the createWidget() function needs to be called with an object",
        built |-> FALSE, hooks |-> 0, widget |-> none]
  ELSE IF ~options.element
  THEN [error |-> "element is not set", built |-> FALSE, hooks |-> 0, widget |-> none]
  ELSE IF options.parentCtx = NoCtx
  THEN [error |-> "parentCtx is not set", built |-> FALSE, hooks |-> 0, widget |-> none]
  ELSE IF controlName = "" \/ viewModel = ""
  THEN [error |-> "TypeError", built |-> TRUE, hooks |-> 0, widget |-> none]
  ELSE LET all == _getOptions(attributes) IN
       IF all.error # ""
       THEN [error |-> all.error, built |-> TRUE, hooks |-> 0, widget |-> none]
       ELSE LET allOptions ==
                  assign(beforeInitialize(options.beforeInitialize, all.options),
                         ParentKey :> ParentArray(options.parentCtx))
            IN [error |-> "",
                built |-> TRUE,
                hooks |-> (IF options.beforeInitialize # "none" THEN 1 ELSE 0)
                          + (IF options.afterInitialize THEN 1 ELSE 0),
                widget |-> NewWidget(all.options, allOptions, options.parentCtx)]

\* destroy(widget): calls widget.destroy(); on no widget that is a TypeError
destroy(widget) ==
  IF widget = 0
  THEN [error |-> "TypeError", widgets |-> widgets]
  ELSE [error |-> "",
        widgets |-> [widgets EXCEPT ![widget].destroyed = @ + 1]]

\* handlePropertyChanged(widget, property, newValue, oldValue): pushes the new
\* value into the live widget
handlePropertyChanged(widget, property, newValue, oldValue) ==
  IF widget = 0
  THEN [error |-> "TypeError", widgets |-> widgets]
  ELSE [error |-> "",
        widgets |-> [widgets EXCEPT ![widget].updates = @ + 1]]

\* ---------------------------------------------------------------- adapters
NoValues == [k \in KNames |-> undefined]
NoLiteral == [k \in {} |-> lit]
Literals == {[k \in K |-> lit] : K \in SUBSET LiteralKeys}

\* the fields a constructor leaves: Calendar(element, widgetBase), which runs
\* widgetBase.control('kendoCalendar').linkViewModel(this).useValueBinding()
Calendar ==
  LET c == control("kendoCalendar")
  IN [controlName |-> c.controlName, kendoOptions |-> c.kendoOptions,
      kendoEvents |-> c.kendoEvents, viewModel |-> linkViewModel("vm").viewModel,
      vm |-> NoValues, literal |-> NoLiteral]

TreeMap ==
  LET c == control("kendoTreeMap")
  IN [controlName |-> c.controlName, kendoOptions |-> c.kendoOptions,
      kendoEvents |-> c.kendoEvents, viewModel |-> linkViewModel("vm").viewModel,
      vm |-> setDefaultBindableValues(c.kendoOptions), literal |-> NoLiteral]

Tooltip ==
  LET c == control("kendoTooltip")
  IN [controlName |-> c.controlName, kendoOptions |-> c.kendoOptions,
      kendoEvents |-> c.kendoEvents, viewModel |-> linkViewModel("vm").viewModel,
      vm |-> NoValues, literal |-> NoLiteral]

\* Stock(element): super('kendoStockChart', element)
Stock ==
  LET c == control("kendoStockChart")
  IN [controlName |-> c.controlName, kendoOptions |-> c.kendoOptions,
      kendoEvents |-> c.kendoEvents, viewModel |-> linkViewModel("vm").viewModel,
      vm |-> NoValues, literal |-> NoLiteral]

AuToolbar ==
  [controlName |-> "", kendoOptions |-> NoLiteral, kendoEvents |-> {},
   viewModel |-> "", vm |-> NoValues, literal |-> NoLiteral]

\* the helper as its constructor leaves it
WidgetBase ==
  [controlName |-> "", kendoOptions |-> NoLiteral, kendoEvents |-> {},
   viewModel |-> "", vm |-> NoValues, literal |-> NoLiteral]

Constructed(k) ==
  CASE k = "Calendar" -> Calendar
    [] k = "TreeMap" -> TreeMap
    [] k = "Tooltip" -> Tooltip
    [] k = "Stock" -> Stock
    [] k = "AuToolbar" -> AuToolbar
    [] OTHER -> WidgetBase

\* the state the constructor of class k leaves, on a host element carrying attrs
Start(k, attrs) ==
  /\ kind = k
  /\ attributes = attrs
  /\ controlName = Constructed(k).controlName
  /\ kendoOptions = Constructed(k).kendoOptions
  /\ kendoEvents = Constructed(k).kendoEvents
  /\ viewModel = Constructed(k).viewModel
  /\ parent = NoCtx
  /\ kWidget = 0
  /\ _component = 0
  /\ widgets = <<>>
  /\ taskQueue = <<>>
  /\ dispatched = <<>>
  /\ updating = FALSE
  /\ last = Done("new", "", FALSE, 0)

\* host elements: no attribute, a plain attribute and a supported event, two
\* events, an event the controls do not have
Markup ==
  {<<>>, <<AttrTitle, AttrDataBound>>, <<AttrChange>>, <<AttrChange, AttrDataBound>>,
   <<AttrBogus>>}

\* an adapter, just constructed
Init ==
  \E k \in Adapters : \E attrs \in Markup :
    /\ Start(k, attrs)
    /\ vm = Constructed(k).vm
    /\ literal = Constructed(k).literal

helper == <<controlName, kendoOptions, kendoEvents, viewModel>>
model == <<vm, literal>>
events == <<taskQueue, dispatched, updating>>

\* this.kWidget = this.widgetBase.createWidget({element, parentCtx: this.$parent})
\* run as operation op; an error leaves kWidget as it was
Create(op, options) ==
  LET r == createWidget(options) IN
  /\ Len(widgets) < MaxWidgets
  /\ IF r.error = ""
     THEN /\ widgets' = Append(widgets, r.widget)
          /\ kWidget' = Len(widgets) + 1
     ELSE UNCHANGED <<widgets, kWidget>>
  /\ last' = DoneWith(op, options, r.error, r.built, r.hooks)
  /\ UNCHANGED <<kind, helper, model, attributes, parent, _component, events>>

\* this.widgetBase.destroy(widget) run as operation op
Destroy(op, widget) ==
  LET r == destroy(widget) IN
  /\ widget # 0 => widgets[widget].destroyed < MaxDestroy
  /\ widgets' = r.widgets
  /\ last' = Done(op, r.error, FALSE, 0)
  /\ UNCHANGED <<kind, helper, model, attributes, parent, kWidget, _component, events>>

bind(ctx) ==
  /\ kind \in {"Calendar", "TreeMap", "Tooltip", "Stock"}
  /\ parent' = ctx
  /\ last' = Done("bind", "", FALSE, 0)
  /\ UNCHANGED <<kind, helper, model, attributes, kWidget, _component, widgets, events>>

Calendar_recreate(op) == kind = "Calendar" /\ Create(op, Args(TRUE, TRUE, parent, "none", FALSE))
Calendar_attached == Calendar_recreate("attached")
Calendar_detached == kind = "Calendar" /\ Destroy("detached", kWidget)

TreeMap_recreate(op) == kind = "TreeMap" /\ Create(op, Args(TRUE, TRUE, parent, "none", FALSE))
TreeMap_attached == TreeMap_recreate("attached")
TreeMap_detached == kind = "TreeMap" /\ Destroy("detached", kWidget)

Tooltip_recreate(op) == kind = "Tooltip" /\ Create(op, Args(TRUE, TRUE, parent, "none", FALSE))
Tooltip_attached == Tooltip_recreate("attached")
Tooltip_detached == kind = "Tooltip" /\ Destroy("detached", kWidget)

\* WidgetBase._initialize of the class Stock extends
_initialize(op) == Create(op, Args(TRUE, TRUE, parent, "none", FALSE))
Stock_attached == kind = "Stock" /\ _initialize("attached")
Stock_recreate == kind = "Stock" /\ _initialize("recreate")
\* detached() of the class Stock extends
Stock_detached == kind = "Stock" /\ Destroy("detached", kWidget)

AuToolbar_attached ==
  /\ kind = "AuToolbar"
  /\ last' = Done("attached", "", FALSE, 0)
  /\ UNCHANGED <<kind, helper, model, attributes, parent, kWidget, _component,
                 widgets, events>>

AuToolbar_detached ==
  /\ kind = "AuToolbar"
  /\ IF _component # 0
     THEN /\ widgets[_component].destroyed < MaxDestroy
          /\ widgets' = [widgets EXCEPT ![_component].destroyed = @ + 1]
     ELSE UNCHANGED widgets
  /\ last' = Done("detached", "", FALSE, 0)
  /\ UNCHANGED <<kind, helper, model, attributes, parent, kWidget, _component, events>>

\* --------------------------------------------------------- property changes
\* the values the binding system may give a bindable property
ValuesOf(k) ==
  CASE k = getBindablePropertyName(title) -> {undefined, null, v1}
    [] OTHER -> {undefined, zero, v1}

\* the bindable properties generated for the selected control
Bindables == {getBindablePropertyName(o) : o \in DOMAIN kendoOptions}

\* a propertyChanged that hands the change to the helper twice
Calendar_propertyChangedTwice(property, newValue, oldValue) ==
  LET r == handlePropertyChanged(kWidget, property, newValue, oldValue) IN
  /\ widgets' = IF r.error = ""
                THEN [r.widgets EXCEPT ![kWidget].updates = @ + 1]
                ELSE r.widgets
  /\ last' = Done("changed", r.error, FALSE, 0)

\* Calendar.propertyChanged(property, newValue, oldValue)
Calendar_propertyChanged(property, newValue, oldValue) ==
  LET r == handlePropertyChanged(kWidget, property, newValue, oldValue) IN
  /\ kWidget # 0 => widgets[kWidget].updates < MaxUpdates
  /\ widgets' = r.widgets
  /\ last' = Done("changed", r.error, FALSE, 0)

\* the class defines no change handler
NoHandler ==
  /\ widgets' = widgets
  /\ last' = Done("changed", "", FALSE, 0)

\* The binding system assigns a bindable property. Before bind() that is the
\* initial binding and no handler runs; afterwards the class's change handler
\* runs, when it has one.
PropertyChange ==
  /\ kind \in Adapters \ {"AuToolbar"}
  /\ \E k \in Bindables : \E newValue \in ValuesOf(k) \ {vm[k]} :
       /\ vm' = [vm EXCEPT ![k] = newValue]
       /\ IF parent = NoCtx
          THEN widgets' = widgets /\ last' = Done("set", "", FALSE, 0)
          ELSE IF kind = "Calendar"
               THEN Calendar_propertyChanged(k, newValue, vm[k])
               ELSE NoHandler
  /\ UNCHANGED <<kind, helper, literal, attributes, parent, kWidget, _component, events>>

\* AuToolbar.enableChanged(newValue)
AuToolbar_enableChanged(newValue) ==
  /\ kind = "AuToolbar"
  /\ IF _component # 0
     THEN /\ widgets[_component].updates < MaxUpdates
          /\ widgets' = [widgets EXCEPT ![_component].updates = @ + 1]
     ELSE UNCHANGED widgets
  /\ last' = Done("changed", "", FALSE, 0)
  /\ UNCHANGED <<kind, helper, model, attributes, parent, kWidget, _component, events>>

\* ------------------------------------------------------------------ events
\* a proxy handler that re-dispatches at once
proxySynchronous(event, e) ==
  /\ taskQueue' = taskQueue
  /\ dispatched' = Append(dispatched, [name |-> _hyphenate(event), detail |-> e])

\* the proxy handler registered for event: e => taskQueue.queueMicroTask(...)
proxy(event, e) ==
  /\ taskQueue' = Append(taskQueue, [event |-> event, e |-> e])
  /\ dispatched' = dispatched

\* fireKendoEvent(element, name, data): dispatches a DOM event on the element
fireKendoEvent(name, data) ==
  dispatched' = Append(dispatched, [name |-> name, detail |-> data])

\* a synchronous widget operation begins; bindings are being updated
BeginUpdate ==
  /\ ~updating
  /\ updating' = TRUE
  /\ last' = Done("begin", "", FALSE, 0)
  /\ UNCHANGED <<kind, helper, model, attributes, parent, kWidget, _component,
                 widgets, taskQueue, dispatched>>

\* the binding system's update cycle completes
EndUpdate ==
  /\ updating
  /\ updating' = FALSE
  /\ last' = Done("end", "", FALSE, 0)
  /\ UNCHANGED <<kind, helper, model, attributes, parent, kWidget, _component,
                 widgets, taskQueue, dispatched>>

\* a live native widget raises an event it holds a handler for; the event
\* object tells its type, its sender and whether it was raised during a
\* synchronous operation
NativeFire ==
  /\ Len(taskQueue) + Len(dispatched) < MaxFires
  /\ \E w \in 1..Len(widgets) : \E event \in DOMAIN widgets[w].options :
       /\ widgets[w].destroyed = 0
       /\ widgets[w].options[event].tag = "proxy"
       /\ proxy(widgets[w].options[event].of,
                [type |-> event, sender |-> w, during |-> updating])
  /\ last' = Done("fire", "", FALSE, 0)
  /\ UNCHANGED <<kind, helper, model, attributes, parent, kWidget, _component,
                 widgets, updating>>

\* the task queue runs its first micro task, once no synchronous code runs
FlushMicroTask ==
  /\ ~updating
  /\ taskQueue # <<>>
  /\ fireKendoEvent(_hyphenate(Head(taskQueue).event), Head(taskQueue).e)
  /\ taskQueue' = Tail(taskQueue)
  /\ last' = Done("flush", "", FALSE, 0)
  /\ UNCHANGED <<kind, helper, model, attributes, parent, kWidget, _component,
                 widgets, updating>>

\* ------------------------------------------------- the helper's interface
Control ==
  /\ kind = "WidgetBase"
  /\ \E name \in ControlArgs :
       LET r == control(name) IN
       /\ controlName' = r.controlName
       /\ kendoOptions' = r.kendoOptions
       /\ kendoEvents' = r.kendoEvents
       /\ last' = DoneWith("control", name, r.error, FALSE, 0)
  /\ UNCHANGED <<kind, viewModel, model, attributes, parent, kWidget, _component,
                 widgets, events>>

LinkViewModel ==
  /\ kind = "WidgetBase"
  /\ \E m \in {"", "vm"} :
       LET r == linkViewModel(m) IN
       /\ viewModel' = r.viewModel
       /\ last' = DoneWith("linkViewModel", m, r.error, FALSE, 0)
  /\ UNCHANGED <<kind, controlName, kendoOptions, kendoEvents, model, attributes,
                 parent, kWidget, _component, widgets, events>>

CreateWidget ==
  /\ kind = "WidgetBase"
  /\ \E given, element, after \in BOOLEAN : \E ctx \in {NoCtx, Ctx} : \E hook \in Hooks :
       Create("createWidget", Args(given, element, ctx, hook, after))

Lifecycle ==
  \/ bind(Ctx)
  \/ Calendar_attached
  \/ Calendar_recreate("recreate")
  \/ Calendar_detached
  \/ TreeMap_attached
  \/ TreeMap_recreate("recreate")
  \/ TreeMap_detached
  \/ Tooltip_attached
  \/ Tooltip_recreate("recreate")
  \/ Tooltip_detached
  \/ Stock_attached
  \/ Stock_recreate
  \/ Stock_detached
  \/ AuToolbar_attached
  \/ AuToolbar_detached

\* the adapters through their life, their bound properties changing
Next ==
  \/ Lifecycle
  \/ PropertyChange
  \/ \E newValue \in BOOLEAN : AuToolbar_enableChanged(newValue)

Spec == Init /\ [][Next]_vars

\* the adapters through their life, their native widgets raising events
EventNext ==
  \/ Lifecycle
  \/ BeginUpdate
  \/ EndUpdate
  \/ NativeFire
  \/ FlushMicroTask

EventSpec == Init /\ [][EventNext]_vars

\* every host element, every combination of bound values and options literal
OptionsInit ==
  \E k \in Adapters : \E attrs \in SeqsUpTo(AttrNames, MaxAttrs) :
    /\ Start(k, attrs)
    /\ vm \in {f \in [KNames -> BoundValues] : \A n \in KNames : f[n] \in ValuesOf(n)}
    /\ literal \in Literals

\* the adapters construct their widgets
OptionsNext ==
  \/ bind(Ctx)
  \/ Calendar_attached
  \/ TreeMap_attached
  \/ Tooltip_attached
  \/ Stock_attached
  \/ AuToolbar_attached

OptionsSpec == OptionsInit /\ [][OptionsNext]_vars

\* the helper on its own, as its constructor leaves it, for a view-model with
\* no bound value or with a title
HelperInit ==
  \E attrs \in Markup :
    /\ Start("WidgetBase", attrs)
    /\ vm \in {NoValues, [NoValues EXCEPT ![getBindablePropertyName(title)] = v1]}
    /\ literal = NoLiteral

\* the helper driven through its interface, with every kind of argument
HelperNext ==
  \/ Control
  \/ LinkViewModel
  \/ CreateWidget

HelperSpec == HelperInit /\ [][HelperNext]_vars

\* ------------------------------------------------------------------ claims
\* the native widget handle the adapter holds (0: none)
Handle == IF kind = "AuToolbar" THEN _component ELSE kWidget

Live == {w \in 1..Len(widgets) : widgets[w].destroyed = 0}

RECURSIVE Sum(_)
Sum(q) == IF q = <<>> THEN 0 ELSE Head(q) + Sum(Tail(q))

\* destroy() calls received by all native widgets
Destructions == Sum([w \in 1..Len(widgets) |-> widgets[w].destroyed])
\* value pushes received by all native widgets
Updates == Sum([w \in 1..Len(widgets) |-> widgets[w].updates])

\* C1: for every adapter, an attached() that returns normally on an instance
\* holding no native widget handle makes exactly one native widget construction
\* call and leaves the adapter holding the handle of that widget.
C1_AttachedConstructsOne ==
  [][(last'.op = "attached" /\ last'.error = "" /\ Handle = 0)
       => /\ Len(widgets') = Len(widgets) + 1
          /\ Handle' = Len(widgets')]_vars

\* C3: for every adapter, detached() right after a successful attached() makes
\* exactly one destruction call, on the native widget that the attach created.
C3_DetachedDestroysOne ==
  [][(last.op = "attached" /\ last.error = "" /\ last'.op = "detached")
       => /\ Len(widgets) >= 1
          /\ Len(widgets') = Len(widgets)
          /\ \A w \in 1..Len(widgets) :
               widgets'[w].destroyed =
                 widgets[w].destroyed + (IF w = Len(widgets) THEN 1 ELSE 0)]_vars

\* C8: for every adapter, detached() on an instance that was never attached
\* makes no destruction call on any native widget and raises no error.
C8_DetachedUnattachedIsNoOp ==
  (last.op = "detached" /\ Handle = 0 /\ widgets = <<>>) => last.error = ""

\* C10: at most one native widget of the adapter is live, every constructed
\* widget is destroyed at most once, and once a widget has been destroyed by
\* detached() the adapter constructs no further widget.
C10_Lifecycle ==
  /\ [](Cardinality(Live) <= 1)
  /\ [](\A w \in 1..Len(widgets) : widgets[w].destroyed <= 1)
  /\ [][Destructions > 0 => Len(widgets') = Len(widgets)]_vars

DomName(t) ==
  CASE t = <<"c">> -> <<"c">>
    [] t = <<"d", "B">> -> <<"d", "-", "b">>
    [] OTHER -> <<"?">>

\* C5: each invocation of a proxy handler queues exactly one micro task and
\* dispatches nothing itself; a DOM event is dispatched only by a micro task
\* that runs, one event per task, never while the synchronous operation and the
\* binding update are still running, and under the hyphenated event name.
C5_DeferredRedispatch ==
  /\ [][last'.op = "fire"
          => /\ Len(taskQueue') = Len(taskQueue) + 1
             /\ dispatched' = dispatched]_vars
  /\ [][dispatched' # dispatched
          => /\ last'.op = "flush"
             /\ ~updating
             /\ taskQueue # <<>>
             /\ taskQueue' = Tail(taskQueue)
             /\ Len(dispatched') = Len(dispatched) + 1
             /\ SubSeq(dispatched', 1, Len(dispatched)) = dispatched
             /\ dispatched'[Len(dispatched')].detail = Head(taskQueue).e]_vars
  /\ [](\A i \in 1..Len(dispatched) :
          dispatched[i].name = DomName(dispatched[i].detail.type))

\* the dataBound event raised while an update was running has been
\* re-dispatched as data-bound, after the update
C5_Witness ==
  /\ dispatched # <<>>
  /\ dispatched[1].name = <<"d", "-", "b">>
  /\ dispatched[1].detail.type = <<"d", "B">>
  /\ dispatched[1].detail.during
  /\ last.op = "flush"

\* C7: control() with no name or an unregistered name raises and leaves the
\* control name, the option schema and the event vocabulary as they were;
\* linkViewModel() with no model raises and leaves the linked view-model as it
\* was; createWidget() without its argument, its element or its parentCtx
\* raises before any option is built, any hook is called or any native widget
\* is constructed.
C7_FailFast ==
  [][/\ (last'.op = "control" /\ last'.arg \notin {"kendoCalendar", "kendoTreeMap",
                                                   "kendoTooltip", "kendoStockChart"})
          => /\ last'.error # ""
             /\ UNCHANGED <<controlName, kendoOptions, kendoEvents>>
     /\ (last'.op = "linkViewModel" /\ last'.arg = "")
          => /\ last'.error # ""
             /\ UNCHANGED viewModel
     /\ (last'.op = "createWidget"
           /\ (~last'.arg.given \/ ~last'.arg.element \/ last'.arg.parentCtx # "ctx"))
          => /\ last'.error # ""
             /\ ~last'.built
             /\ last'.hooks = 0
             /\ UNCHANGED <<widgets, kWidget>>]_vars

\* a createWidget() with hooks but without parentCtx has raised, on a helper
\* that has a control selected and a view-model linked
C7_Witness ==
  /\ last.op = "createWidget"
  /\ last.arg.given /\ last.arg.element /\ last.arg.parentCtx # "ctx"
  /\ last.arg.beforeInitialize # "none"
  /\ last.error = "parentCtx is not set"
  /\ controlName # "" /\ viewModel # ""

\* the schema options with the bindable property generated for each
Generated == {<<(<<"t">>), (<<"k", "T">>)>>, <<(<<"d", "S">>), (<<"k", "D", "S">>)>>}
Defined(v) == v.tag \notin {"undefined", "null"}

\* C2 as stated: the options passed to the native constructor hold every
\* bindable property whose value is defined, under the option's name and with
\* that value, and hold no key for a bindable property whose value is
\* undefined or null.
C2_BoundPropertiesOnly ==
  \A w \in 1..Len(widgets) : \A g \in Generated :
    g[1] \in DOMAIN kendoOptions =>
      IF Defined(vm[g[2]])
      THEN g[1] \in DOMAIN widgets[w].options /\ widgets[w].options[g[1]] = vm[g[2]]
      ELSE g[1] \notin DOMAIN widgets[w].options

\* C2 as amended: the options an adapter's createWidget call (no
\* beforeInitialize hook) passes to the native constructor hold every bindable
\* property whose value is defined, with that value; for a bindable property
\* whose value is undefined or null they hold a key exactly when the
\* view-model's options literal has that key, and then with the literal's value.
C2_BoundPropertiesOrLiteral ==
  \A w \in 1..Len(widgets) : \A g \in Generated :
    g[1] \in DOMAIN kendoOptions =>
      IF Defined(vm[g[2]])
      THEN g[1] \in DOMAIN widgets[w].options /\ widgets[w].options[g[1]] = vm[g[2]]
      ELSE /\ g[1] \in DOMAIN widgets[w].options <=> g[1] \in DOMAIN literal
           /\ g[1] \in DOMAIN literal => widgets[w].options[g[1]] = literal[g[1]]

\* a TreeMap widget constructed with a null title, a falsy data source and an
\* options literal that has a title
C2_Witness ==
  /\ kind = "TreeMap"
  /\ widgets # <<>>
  /\ vm[<<"k", "T">>].tag = "null"
  /\ vm[<<"k", "D", "S">>].tag = "0"
  /\ <<"t">> \in DOMAIN literal
  /\ widgets[1].options[<<"t">>].tag = "lit"
  /\ widgets[1].options[<<"d", "S">>].tag = "0"

\* the event an attribute asks for: on-c -> c, on-d-b -> dB, on-x -> x
Asked(a) ==
  CASE a = <<"o", "n", "-", "c">> -> {<<"c">>}
    [] a = <<"o", "n", "-", "d", "-", "b">> -> {<<"d", "B">>}
    [] a = <<"o", "n", "-", "x">> -> {<<"x">>}
    [] OTHER -> {}
AskedEvents == UNION {Asked(attributes[i]) : i \in 1..Len(attributes)}

\* C4: in the options built for a host element every event attribute naming
\* an event of the control yields one proxy handler under that event's name,
\* and there are no other proxy handlers; when an event attribute names an
\* event the control does not have, building the options raises an error and
\* no native widget is constructed.
C4_EventAttributes ==
  /\ \A w \in 1..Len(widgets) :
       /\ \A ev \in AskedEvents :
            /\ ev \in DOMAIN widgets[w].merged
            /\ widgets[w].merged[ev] = [tag |-> "proxy", of |-> ev]
       /\ {k \in DOMAIN widgets[w].merged : widgets[w].merged[k].tag = "proxy"}
            = AskedEvents
       /\ \A k \in DOMAIN widgets[w].merged :
            widgets[w].options[k] = widgets[w].merged[k]
  /\ (AskedEvents \ kendoEvents # {})
       => /\ widgets = <<>>
          /\ last.built => last.error # ""

\* a TreeMap on an element asking for dataBound, which it has, and then for
\* change, which it has not: attached() raised and constructed nothing
C4_Witness ==
  /\ kind = "TreeMap"
  /\ attributes = <<(<<"o", "n", "-", "d", "-", "b">>), (<<"o", "n", "-", "c">>)>>
  /\ last.op = "attached"
  /\ last.built
  /\ last.error = "not an event on the control"
  /\ widgets = <<>>

\* a bindable property hands key k a defined value
BoundHas(k) ==
  \/ \E g \in Generated : g[1] = k /\ k \in DOMAIN kendoOptions /\ Defined(vm[g[2]])
  \/ k = <<"d", "S">> /\ vm[<<"k", "D", "S">>].tag = "v1"
BoundOf(k) == vm[CHOOSE n \in DOMAIN vm : <<k, n>> \in Generated]

====
